---------------------------- MODULE Spec2Model ----------------------------
(***************************************************************************)
(* A model of mpas_analysis/shared/grid/grid.py: the three SCRIP           *)
(* descriptors (MpasMeshDescriptor, LatLonGridDescriptor,                  *)
(* ProjectionGridDescriptor) and the helpers _create_scrip,                *)
(* _interp_extrap_corner and _unwrap_corners.                              *)
(*                                                                         *)
(* Numbers.  Coordinates are floats in the source.  The model holds them   *)
(* as integers and draws the inputs so that every product with 0.5 is      *)
(* taken of an even number: the arithmetic of the model is then the exact  *)
(* arithmetic of the source (no rounding is modelled).                     *)
(* Arrays are sequences, 1-based: index i of the source is index i+1 here. *)
(* Strings are sequences of one-character strings.                         *)
(***************************************************************************)
EXTENDS Integers, Sequences, FiniteSets, TLC

\* ------------------------------------------------------------ bounds
\* longest sequence of cell centers handed to _interp_extrap_corner
MaxLen == 3
\* most cells per axis of a corner lattice handed to _unwrap_corners
MaxDim == 2

\* ------------------------------------------------------------ arithmetic
\* 0.5 * x, for the even x the inputs produce
Half(x) == x \div 2

Min(a, b) == IF a <= b THEN a ELSE b

\* ------------------------------------------------------------ helpers of grid.py
\* The value a failed call leaves in place of a result.
IndexError == [ok |-> FALSE, val |-> <<>>]
Ok(v) == [ok |-> TRUE, val |-> v]

\* A mutant of interp_extrap_corner: the ends are extrapolated with the
\* weights of the midpoint (0.5, 0.5 in place of 1.5, -0.5).
interp_extrap_corner_ends(inField) ==
    LET n == Len(inField)
    IN  IF n < 2 THEN IndexError
        ELSE Ok([i \in 1..(n + 1) |->
                   IF i = 1 THEN Half(inField[1] + inField[2])
                   ELSE IF i = n + 1 THEN Half(inField[n] + inField[n - 1])
                   ELSE Half(inField[i - 1] + inField[i])])

\* _interp_extrap_corner: N centers to N+1 corners.  inField[1] (the second
\* center) and inField[-2] do not exist for fewer than two centers: numpy
\* raises IndexError (for no center at all, inField[0] does not exist).
interp_extrap_corner(inField) ==
    LET n == Len(inField)
    IN  IF n < 2 THEN IndexError
        ELSE Ok([i \in 1..(n + 1) |->
                   IF i = 1 THEN Half(3 * inField[1] - inField[2])
                   ELSE IF i = n + 1 THEN Half(3 * inField[n] - inField[n - 1])
                   ELSE Half(inField[i - 1] + inField[i])])

\* numpy.meshgrid(x, y): two arrays of shape (len(y), len(x)); the first
\* repeats x along every row, the second repeats y along every column.
meshgrid(x, y) ==
    [X |-> [r \in 1..Len(y) |-> [c \in 1..Len(x) |-> x[c]]],
     Y |-> [r \in 1..Len(y) |-> [c \in 1..Len(x) |-> y[r]]]]

\* shape of a 2D array held as a sequence of rows
NRows(a) == Len(a)
NCols(a) == IF Len(a) = 0 THEN 0 ELSE Len(a[1])

\* a[r0:r1, c0:c1].flat : the block's entries in row-major order
\* (rows r0+1..r1, columns c0+1..c1 in the 1-based indices of the model)
FlatBlock(a, r0, r1, c0, c1) ==
    LET w == c1 - c0
        h == r1 - r0
    IN  IF w <= 0 \/ h <= 0 THEN <<>>
        ELSE [k \in 1..(h * w) |->
                a[r0 + ((k - 1) \div w) + 1][c0 + ((k - 1) % w) + 1]]

\* A mutant of unwrap_corners: columns 1 and 3 are exchanged (the polygon is
\* listed lower-left, upper-left, upper-right, lower-right).
unwrap_corners_swapped(inField) ==
    LET ny == NRows(inField) - 1
        nx == NCols(inField) - 1
        c0 == FlatBlock(inField, 0, ny, 0, nx)
        c1 == FlatBlock(inField, 1, ny + 1, 0, nx)
        c2 == FlatBlock(inField, 1, ny + 1, 1, nx + 1)
        c3 == FlatBlock(inField, 0, ny, 1, nx + 1)
    IN  [k \in 1..(ny * nx) |-> <<c0[k], c1[k], c2[k], c3[k]>>]

\* _unwrap_corners: a lattice of shape (ny+1, nx+1) to ny*nx rows of 4.
unwrap_corners(inField) ==
    LET ny == NRows(inField) - 1
        nx == NCols(inField) - 1
        c0 == FlatBlock(inField, 0, ny, 0, nx)
        c1 == FlatBlock(inField, 0, ny, 1, nx + 1)
        c2 == FlatBlock(inField, 1, ny + 1, 1, nx + 1)
        c3 == FlatBlock(inField, 1, ny + 1, 0, nx)
    IN  [k \in 1..(ny * nx) |-> <<c0[k], c1[k], c2[k], c3[k]>>]


\* ------------------------------------------------------------ strings
\* sep.join(parts), for strings held as sequences of characters
RECURSIVE Join(_, _)
Join(sep, parts) ==
    IF Len(parts) = 0 THEN <<>>
    ELSE IF Len(parts) = 1 THEN parts[1]
    ELSE parts[1] \o sep \o Join(sep, Tail(parts))

\* ''.join(parts)
Concat(parts) == Join(<<>>, parts)

\* A Python value held in a history attribute: a str (val is <<text>>), a
\* list of str (val is the list), or no attribute at all.
NoHistory == [kind |-> "none", val |-> <<>>]
StrValue(text) == [kind |-> "str", val |-> <<text>>]
ListValue(parts) == [kind |-> "list", val |-> parts]

\* The history computed in MpasMeshDescriptor.to_scrip and in the two read
\* methods: '\n'.join([history, ' '.join(sys.argv[:])]) when the source
\* carries a history attribute, else the list sys.argv[:] itself.
new_history(srcHistory, args) ==
    IF srcHistory.kind # "none"
    THEN StrValue(Join(<<"\n">>, <<srcHistory.val[1], Join(<<" ">>, args)>>))
    ELSE ListValue(args)

\* setattr(outFile, 'history', value) of netCDF4: a str is stored as it is.
\* A list of str is not a value the format stores as text: depending on the
\* release of the library it is stored as an array of strings or as the
\* concatenation of its elements (no separator); a list of one element is
\* stored as that element.
netcdf_setattr(value) ==
    IF value.kind # "list" THEN {value}
    ELSE IF Len(value.val) = 1 THEN {StrValue(value.val[1])}
    ELSE {value, StrValue(Concat(value.val))}

\* ------------------------------------------------------------ destination files
FileNames == {"a.nc", "b.nc"}

\* A destination that does not exist.
NoFile ==
    [status |-> "absent", grid_size |-> 0, grid_corners |-> 0, grid_rank |-> 0,
     units |-> "", grid_center_lat |-> <<>>, grid_center_lon |-> <<>>,
     grid_corner_lat |-> <<>>, grid_corner_lon |-> <<>>, grid_imask |-> <<>>,
     grid_dims |-> <<>>, grid_area |-> <<>>, history |-> NoHistory]

\* netCDF4.Dataset(scripFileName, 'w'): the file is created (or truncated)
\* at once, empty.  status is "open" until close() and "closed" after it.
NewFile == [NoFile EXCEPT !.status = "open"]

\* A mutant of create_scrip: grid_corners and grid_rank are created with each
\* other's size.
create_scrip_swapped(outFile, grid_size, grid_corners, grid_rank, units) ==
    [outFile EXCEPT !.grid_size = grid_size, !.grid_corners = grid_rank,
                    !.grid_rank = grid_corners, !.units = units]

\* _create_scrip: the three dimensions and the six variables; the variables
\* hold nothing yet (a variable not yet written is the empty sequence).
create_scrip(outFile, grid_size, grid_corners, grid_rank, units) ==
    [outFile EXCEPT !.grid_size = grid_size, !.grid_corners = grid_corners,
                    !.grid_rank = grid_rank, !.units = units]

\* var[:] = 1 on a variable over grid_size
Ones(n) == [i \in 1..n |-> 1]

\* X.flat of a 2D array
Flat(a) == FlatBlock(a, 0, NRows(a), 0, NCols(a))

\* ------------------------------------------------------------ state
VARIABLES
    kind,       \* which program runs: "interp", "unwrap", "mesh", "latlon", "proj"
    inField,    \* the argument of _interp_extrap_corner
    outField,   \* its result
    lattice,    \* the argument of _unwrap_corners
    polygons,   \* its result
    argv,       \* sys.argv
    meshFile,   \* the MPAS mesh file (the source dataset of the mesh descriptor)
    gridFile,   \* the grid file read() is given (lat-lon and projected grids)
    arrays,     \* the coordinate arrays create() is given
    mesh,       \* the MpasMeshDescriptor instance
    ll,         \* the LatLonGridDescriptor instance
    pg,         \* the ProjectionGridDescriptor instance
    files,      \* the destination files, by name
    handles,    \* the file handles that are open
    calls,      \* the number of method calls made so far
    last,       \* the last method call: its name, whether it returned, its file
    log         \* what the instance has exported so far (see Exported)

vars == <<kind, inField, outField, lattice, polygons, argv, meshFile,
          gridFile, arrays, mesh, ll, pg, files, handles, calls, last, log>>

\* most method calls made on one descriptor instance
MaxCalls == 3

\* An arithmetic progression of n values.
AP(start, step, n) == [i \in 1..n |-> start + (i - 1) * step]

\* sys.argv: the program name alone, or with one argument
Argvs == {<< <<"p">> >>, << <<"p">>, <<"a">> >>}

NoCall == [op |-> "none", ok |-> TRUE, file |-> ""]
NoLog == [gen |-> 0, nExports |-> 0, exportGens |-> {}, exportFiles |-> {}]

\* The files a handle can be open on, and the count of open handles on each:
\* Opened is a handle opened and not closed by the end of the call.
HandleNames == {"mesh.nc", "grid.nc", "a.nc", "b.nc"}
NoHandles == [h \in HandleNames |-> 0]
Opened(hs, name) == [hs EXCEPT ![name] = @ + 1]

\* ------------------------------------------------------------ LatLonGridDescriptor
\* The instance after __init__: regional is set and nothing else.  has is the
\* set of attributes the instance carries; reading another raises
\* AttributeError.  origin tells how the grid was last set: by a read or a
\* create that returned, or by a read that failed part way ("failed").
LLNew ==
    [has |-> {}, lat |-> <<>>, lon |-> <<>>, units |-> "",
     latCorner |-> <<>>, lonCorner |-> <<>>, history |-> NoHistory,
     coords |-> [lat |-> <<>>, lon |-> <<>>, units |-> ""],
     dims |-> <<>>, scripFileName |-> "", origin |-> "none"]

\* 'degree' in units, for the units attributes the sources carry
HasDegree(u) == u \in {"degrees", "degrees_north", "degrees_east"}

\* LatLonGridDescriptor._set_coords
LL_set_coords(self, latDimName, lonDimName) ==
    [self EXCEPT !.coords = [lat |-> self.lat, lon |-> self.lon,
                             units |-> self.units],
                 !.dims = <<latDimName, lonDimName>>,
                 !.has = @ \cup {"coords", "dims"}]

\* LatLonGridDescriptor.read on the dataset ds: the instance it leaves and
\* whether it returned.  Every assignment made before a failure stays.
LLRead(self, ds, args) ==
    LET s1 == [self EXCEPT !.lat = ds.lat, !.has = @ \cup {"lat"}]
        s2 == [s1 EXCEPT !.lon = ds.lon, !.has = @ \cup {"lon"}]
        s3 == [s2 EXCEPT !.units = IF HasDegree(ds.units) THEN "degrees"
                                   ELSE "radians",
                         !.has = @ \cup {"units"}]
        s4 == LL_set_coords(s3, "lat", "lon")
        lonC == interp_extrap_corner(s4.lon)
        s5 == [s4 EXCEPT !.lonCorner = lonC.val, !.has = @ \cup {"lonCorner"}]
        latC == interp_extrap_corner(s5.lat)
        s6 == [s5 EXCEPT !.latCorner = latC.val, !.has = @ \cup {"latCorner"}]
        s7 == [s6 EXCEPT !.history = new_history(ds.history, args),
                         !.has = @ \cup {"history"}]
        Failed(s) == [self |-> [s EXCEPT !.origin = "failed"], ok |-> FALSE]
    IN  IF "lat" \notin ds.vars THEN [self |-> self, ok |-> FALSE]
        ELSE IF "lon" \notin ds.vars THEN Failed(s1)
        ELSE IF ds.units = "none" THEN Failed(s2)
        ELSE IF ~lonC.ok THEN Failed(s4)
        ELSE IF ~latC.ok THEN Failed(s5)
        ELSE [self |-> [s7 EXCEPT !.origin = "read"], ok |-> TRUE]

\* 0.5*(corner[0:-1] + corner[1:])
Centers(corner) ==
    [i \in 1..(Len(corner) - 1) |-> Half(corner[i] + corner[i + 1])]

\* LatLonGridDescriptor.create
LLCreate(self, latCorner, lonCorner, units, args) ==
    LET s1 == [self EXCEPT !.latCorner = latCorner, !.lonCorner = lonCorner,
                           !.lon = Centers(lonCorner),
                           !.lat = Centers(latCorner),
                           !.units = units,
                           !.history = ListValue(args),
                           !.has = @ \cup {"latCorner", "lonCorner", "lon",
                                           "lat", "units", "history"}]
    IN  [self |-> [LL_set_coords(s1, "lat", "lon") EXCEPT !.origin = "create"],
         ok |-> TRUE]

\* var[:] = data on a variable of shape (grid_size, grid_corners): netCDF4
\* refuses data of another shape.
FitsCorners(outFile, data) ==
    /\ Len(data) = outFile.grid_size
    /\ \A k \in 1..Len(data) : Len(data[k]) = outFile.grid_corners

\* A mutant of LLDims: the cell counts in the order (nLat, nLon).
LLDimsLatFirst(nLat, nLon) == <<nLat, nLon>>

\* grid_dims of a lat-lon grid: [nLon, nLat]
LLDims(nLat, nLon) == <<nLon, nLat>>

\* A mutant of set_scrip_file_name: the name is not recorded.
set_scrip_file_name_not(self, scripFileName) == self

\* self.scripFileName = scripFileName
set_scrip_file_name(self, scripFileName) ==
    [self EXCEPT !.scripFileName = scripFileName,
                 !.has = @ \cup {"scripFileName"}]

\* LatLonGridDescriptor.to_scrip: the instance and the destination file it
\* leaves, and whether it returned.  histAttr is the history attribute as
\* the library stores it.  The file is created first; what was written
\* before a failure stays in it, and a failed call never closes it.
LLToScrip(self, scripFileName, histAttr) ==
    LET me == set_scrip_file_name(self, scripFileName)
        nLat == Len(self.lat)
        nLon == Len(self.lon)
        f0 == NewFile
        f1 == create_scrip(f0, nLat * nLon, 4, 2, self.units)
        centers == meshgrid(self.lon, self.lat)
        corners == meshgrid(self.lonCorner, self.latCorner)
        f2 == [f1 EXCEPT !.grid_center_lat = Flat(centers.Y),
                         !.grid_center_lon = Flat(centers.X),
                         !.grid_dims = LLDims(nLat, nLon),
                         !.grid_imask = Ones(f1.grid_size)]
        cornerLat == unwrap_corners(corners.Y)
        cornerLon == unwrap_corners(corners.X)
        f3 == [f2 EXCEPT !.grid_corner_lat = cornerLat]
        f4 == [f3 EXCEPT !.grid_corner_lon = cornerLon]
        f5 == [f4 EXCEPT !.history = histAttr, !.status = "closed"]
        Failed(f) == [self |-> me, file |-> f, ok |-> FALSE]
    IN  IF ~({"lat", "lon"} \subseteq self.has) THEN Failed(f0)
        ELSE IF "units" \notin self.has THEN Failed(f0)
        ELSE IF ~({"lonCorner", "latCorner"} \subseteq self.has) THEN Failed(f1)
        ELSE IF ~FitsCorners(f2, cornerLat) THEN Failed(f2)
        ELSE IF ~FitsCorners(f3, cornerLon) THEN Failed(f3)
        ELSE IF "history" \notin self.has THEN Failed(f4)
        ELSE [self |-> me, file |-> f5, ok |-> TRUE]

\* ------------------------------------------------------------ inputs of the lat-lon grid
\* The center sequences a source file holds along one axis: from 0 in steps
\* of 10, increasing or decreasing, one center at least.
CenterInputs == {AP(0, s, n) : s \in {10, -10}, n \in 1..MaxLen}

\* The corner sequences handed to create: from -5 in steps of 10, two
\* corners (one cell) at least.
CornerInputs == {AP(-5, s, n) : s \in {10, -10}, n \in 2..(MaxLen + 1)}

\* The grid files read() is given: every pair of center sequences in a file
\* that is otherwise whole, and the 3 by 2 grid in the files where a
\* coordinate variable, the units attribute or the history attribute may be
\* missing, and a file of the one latitude 40 that lacks its longitudes.
LLDatasets ==
    [vars : {{"lat", "lon"}}, lat : CenterInputs, lon : CenterInputs,
     units : {"degrees_north"}, history : {NoHistory}]
    \cup
    [vars : {{"lat", "lon"}, {"lat"}, {"lon"}},
     lat : {AP(0, 10, 3)}, lon : {AP(0, 10, 2)},
     units : {"degrees_north", "radians", "none"},
     history : {NoHistory, StrValue(<<"h">>)}]
    \cup
    {[vars |-> {"lat"}, lat |-> <<40>>, lon |-> <<0, 10>>,
      units |-> "degrees_north", history |-> NoHistory]}

\* The arrays create() is given: every pair of corner sequences in degrees,
\* and one grid in radians.
LLArrays ==
    [latCorner : CornerInputs, lonCorner : CornerInputs, units : {"degrees"}]
    \cup
    [latCorner : {AP(-5, 10, 2)}, lonCorner : {AP(-5, 10, 3)},
     units : {"radians"}]

\* The grid file and the arrays of the programs that vary the other.
LLDefaultDataset ==
    [vars |-> {"lat", "lon"}, lat |-> AP(0, 10, 3), lon |-> AP(0, 10, 2),
     units |-> "degrees_north", history |-> NoHistory]
LLDefaultArrays ==
    [latCorner |-> AP(-5, 10, 2), lonCorner |-> AP(-5, 10, 3),
     units |-> "degrees"]

\* ------------------------------------------------------------ bookkeeping
\* The record of a call of read or create.
Loaded(l, ok) == IF ok THEN [l EXCEPT !.gen = @ + 1] ELSE l

\* The record of a call of to_scrip that returned.
Exported(l, ok, scripFileName) ==
    IF ok THEN [l EXCEPT !.nExports = @ + 1,
                         !.exportGens = @ \cup {l.gen},
                         !.exportFiles = @ \cup {scripFileName}]
    ELSE l

\* ------------------------------------------------------------ actions: lat-lon grid
LatLonRead ==
    /\ kind = "latlon"
    /\ calls < MaxCalls
    /\ \E r \in {LLRead(ll, gridFile, argv)} :
           /\ ll' = r.self
           /\ last' = [op |-> "read", ok |-> r.ok, file |-> ""]
           /\ log' = Loaded(log, r.ok)
    \* xarray.open_dataset: read() never closes the dataset
    /\ handles' = Opened(handles, "grid.nc")
    /\ calls' = calls + 1
    /\ UNCHANGED <<kind, inField, outField, lattice, polygons, argv, meshFile,
                   gridFile, arrays, mesh, pg, files>>

LatLonCreate ==
    /\ kind = "latlon"
    /\ calls < MaxCalls
    /\ \E r \in {LLCreate(ll, arrays.latCorner, arrays.lonCorner, arrays.units,
                         argv)} :
           /\ ll' = r.self
           /\ last' = [op |-> "create", ok |-> r.ok, file |-> ""]
           /\ log' = Loaded(log, r.ok)
    /\ calls' = calls + 1
    /\ UNCHANGED <<kind, inField, outField, lattice, polygons, argv, meshFile,
                   gridFile, arrays, mesh, pg, files, handles>>

LatLonToScrip ==
    /\ kind = "latlon"
    /\ calls < MaxCalls
    /\ \E scripFileName \in FileNames :
       \E histAttr \in netcdf_setattr(ll.history) :
         \E r \in {LLToScrip(ll, scripFileName, histAttr)} :
             /\ ll' = r.self
             /\ files' = [files EXCEPT ![scripFileName] = r.file]
             /\ handles' = IF r.ok THEN handles
                           ELSE Opened(handles, scripFileName)
             /\ last' = [op |-> "to_scrip", ok |-> r.ok, file |-> scripFileName]
             /\ log' = Exported(log, r.ok, scripFileName)
    /\ calls' = calls + 1
    /\ UNCHANGED <<kind, inField, outField, lattice, polygons, argv, meshFile,
                   gridFile, arrays, mesh, pg>>

\* ------------------------------------------------------------ MpasMeshDescriptor
\* most cells and most vertices per cell (maxEdges) of a mesh file
MaxCells == 2
MaxEdges == 3

\* Indexing a numpy array of n entries with i: the entry i for 0 <= i < n,
\* the entry n + i (counted from the end) for -n <= i < 0, IndexError
\* otherwise.
InRange(i, n) == -n <= i /\ i < n
PyGet(a, i) == IF i >= 0 THEN a[i + 1] ELSE a[Len(a) + i + 1]

\* a / b as an exact fraction in lowest terms (a >= 0, b > 0)
RECURSIVE GCD(_, _)
GCD(a, b) == IF b = 0 THEN a ELSE GCD(b, a % b)
Divide(a, b) == LET g == GCD(a, b) IN [num |-> a \div g, den |-> b \div g]

\* A mutant of scrip_area: the area is divided by the radius, not its square.
scrip_area_by_radius(areaCell, sphereRadius) == Divide(areaCell, sphereRadius)

\* areaCell / (sphereRadius**2): SCRIP uses square radians
scrip_area(areaCell, sphereRadius) ==
    Divide(areaCell, sphereRadius * sphereRadius)

\* A mutant of local_vertex_index: the last vertex is taken to be at
\* nEdgesOnCell, not at nEdgesOnCell - 1.
local_vertex_index_late(nEdges, iVertex) == Min(nEdges, iVertex)

\* numpy.minimum(nEdgesOnCell-1, iVertex): the last vertex is repeated
\* wherever iVertex > nEdgesOnCell
local_vertex_index(nEdges, iVertex) == Min(nEdges - 1, iVertex)

\* verticesOnCell[cell, localVertexIndices] - 1, for the cell c (1-based
\* here) and the output position iVertex (0-based as in the source)
vertex_index(mf, c, iVertex) ==
    PyGet(mf.verticesOnCell[c],
          local_vertex_index(mf.nEdgesOnCell[c], iVertex)) - 1

\* The corner array the loop over iVertex fills from the vertex array v.
mesh_corners(mf, v) ==
    [c \in 1..mf.nCells |->
        [p \in 1..mf.maxEdges |-> PyGet(v, vertex_index(mf, c, p - 1))]]

\* latVertex[vertexIndices] raises IndexError for an index outside
\* -nVertices..nVertices-1.
mesh_corners_ok(mf) ==
    \A c \in 1..mf.nCells, p \in 1..mf.maxEdges :
        InRange(vertex_index(mf, c, p - 1), Len(mf.latVertex))

\* The instance before __init__ has run.
MeshNone ==
    [constructed |-> FALSE, fileName |-> "", regional |-> TRUE,
     coords |-> [latCell |-> <<>>, lonCell |-> <<>>], dims |-> <<>>,
     scripFileName |-> ""]

\* MpasMeshDescriptor.__init__: the file is opened, latCell and lonCell are
\* read, the file is closed.  A missing variable raises KeyError with the
\* file open and no instance constructed.
MeshInit(mf) ==
    IF "latCell" \in mf.missing
    THEN [self |-> MeshNone, ok |-> FALSE]
    ELSE [self |-> [MeshNone EXCEPT !.constructed = TRUE,
                                    !.fileName = "mesh.nc",
                                    !.coords = [latCell |-> mf.latCell,
                                                lonCell |-> mf.lonCell],
                                    !.dims = <<"nCells">>],
          ok |-> TRUE]

\* MpasMeshDescriptor.to_scrip: the instance and the destination file it
\* leaves, and whether it returned.  Both files are opened first; a failure
\* leaves them open and the destination as far as it was written.
MeshToScrip(self, mf, scripFileName, histAttr) ==
    LET me == [self EXCEPT !.scripFileName = scripFileName]
        f0 == NewFile
        f1 == create_scrip(f0, mf.nCells, mf.maxEdges, 1, "radians")
        f2 == [f1 EXCEPT !.grid_area =
                 [c \in 1..mf.nCells |->
                    scrip_area(mf.areaCell[c], mf.sphere_radius)]]
        f3 == [f2 EXCEPT !.grid_center_lat = mf.latCell,
                         !.grid_center_lon = mf.lonCell,
                         !.grid_dims = <<mf.nCells>>,
                         !.grid_imask = Ones(f2.grid_size)]
        f4 == [f3 EXCEPT !.grid_corner_lat = mesh_corners(mf, mf.latVertex),
                         !.grid_corner_lon = mesh_corners(mf, mf.lonVertex)]
        f5 == [f4 EXCEPT !.history = histAttr, !.status = "closed"]
        Failed(f) == [self |-> me, file |-> f, ok |-> FALSE]
    IN  IF "areaCell" \in mf.missing THEN Failed(f0)
        ELSE IF "sphere_radius" \in mf.missing THEN Failed(f0)
        ELSE IF ~mesh_corners_ok(mf) THEN Failed(f3)
        ELSE [self |-> me, file |-> f5, ok |-> TRUE]

\* ------------------------------------------------------------ inputs of the mesh
\* The vertices of every mesh file: MaxEdges of them, vertex v (1-based id)
\* at latitude 10*v and longitude 10*v + 1.
NVertices == MaxEdges

\* The ids a verticesOnCell entry may hold: the vertices, and 0 and
\* NVertices + 1, which are no vertex.
Ids == 0..(NVertices + 1)

\* The vertex lists of one cell: k different ids, then the padding of 0 that
\* MPAS writes after the last vertex of a cell.
CellRows(maxEdges) ==
    {cell \in [nEdges : 1..maxEdges, row : [1..maxEdges -> Ids]] :
        /\ \A i \in 1..maxEdges : i > cell.nEdges => cell.row[i] = 0
        /\ \A i, j \in 1..cell.nEdges : i # j => cell.row[i] # cell.row[j]}

\* A cell of maxEdges vertices, all of them vertices of the mesh.
WholeRow(c, maxEdges) ==
    [nEdges |-> maxEdges,
     row |-> [i \in 1..maxEdges |-> ((c + i) % NVertices) + 1]]

WholeCells(n, maxEdges) == [c \in 1..n |-> WholeRow(c, maxEdges).row]

\* The mesh file of the cells `cells`, of areas area*c on a sphere of the
\* given radius.
MeshFileOf(cells, maxEdges, area, radius, history, missing) ==
    [nCells |-> Len(cells), maxEdges |-> maxEdges,
     latCell |-> [c \in 1..Len(cells) |-> 5 * c],
     lonCell |-> [c \in 1..Len(cells) |-> 5 * c + 1],
     latVertex |-> [v \in 1..NVertices |-> 10 * v],
     lonVertex |-> [v \in 1..NVertices |-> 10 * v + 1],
     verticesOnCell |-> [c \in 1..Len(cells) |-> cells[c].row],
     nEdgesOnCell |-> [c \in 1..Len(cells) |-> cells[c].nEdges],
     areaCell |-> [c \in 1..Len(cells) |-> area * c],
     sphere_radius |-> radius, history |-> history, missing |-> missing]

\* The mesh files: every vertex list in the first cell of a mesh whose other
\* cells are whole; and the whole mesh with every area, radius and history,
\* and with a variable or the sphere_radius attribute missing.
MeshFiles ==
    {MeshFileOf([c \in 1..n |-> IF c = 1 THEN first ELSE WholeRow(c, m)],
                m, 100, 10, NoHistory, {}) :
        <<n, m, first>> \in
            UNION {{<<n, m, first>> : first \in CellRows(m)} :
                     <<n, m>> \in (1..MaxCells) \X (1..MaxEdges)}}
    \cup
    {MeshFileOf([c \in 1..MaxCells |-> WholeRow(c, MaxEdges)], MaxEdges,
                ar[1], ar[2], h, miss) :
        <<ar, h, miss>> \in
            {<<100, 10>>, <<50, 5>>, <<3, 2>>, <<8, 1>>}
            \X {NoHistory, StrValue(<<"h">>)}
            \X {{}, {"latCell"}, {"areaCell"}, {"sphere_radius"}}}

\* ------------------------------------------------------------ actions: mesh
MeshConstruct ==
    /\ kind = "mesh"
    /\ calls < MaxCalls
    /\ ~mesh.constructed
    /\ \E r \in {MeshInit(meshFile)} :
           /\ mesh' = r.self
           /\ handles' = IF r.ok THEN handles ELSE Opened(handles, "mesh.nc")
           /\ last' = [op |-> "init", ok |-> r.ok, file |-> ""]
    /\ calls' = calls + 1
    /\ UNCHANGED <<kind, inField, outField, lattice, polygons, argv, meshFile,
                   gridFile, arrays, ll, pg, files, log>>

MeshExport ==
    /\ kind = "mesh"
    /\ calls < MaxCalls
    /\ mesh.constructed
    /\ \E scripFileName \in FileNames :
       \E histAttr \in netcdf_setattr(new_history(meshFile.history, argv)) :
         \E r \in {MeshToScrip(mesh, meshFile, scripFileName, histAttr)} :
             /\ mesh' = r.self
             /\ files' = [files EXCEPT ![scripFileName] = r.file]
             /\ handles' = IF r.ok THEN handles
                           ELSE Opened(Opened(handles, "mesh.nc"),
                                       scripFileName)
             /\ last' = [op |-> "to_scrip", ok |-> r.ok, file |-> scripFileName]
             /\ log' = Exported(log, r.ok, scripFileName)
    /\ calls' = calls + 1
    /\ UNCHANGED <<kind, inField, outField, lattice, polygons, argv, meshFile,
                   gridFile, arrays, ll, pg>>

\* ------------------------------------------------------------ ProjectionGridDescriptor
\* A pyproj projection, as the affine map it is on the grids of the model:
\* the point (x, y) lies at longitude a*x + b*y + lon0 and latitude
\* c*x + d*y + lat0.
Projections ==
    {[a |-> 1, b |-> 0, c |-> 0, d |-> 1, lon0 |-> 100, lat0 |-> -100],
     [a |-> 1, b |-> 1, c |-> -1, d |-> 1, lon0 |-> 0, lat0 |-> 0]}

\* pyproj.transform(projection, latLonProjection, x, y) at one point
transform(proj, x, y) ==
    [lon |-> proj.a * x + proj.b * y + proj.lon0,
     lat |-> proj.c * x + proj.d * y + proj.lat0]

\* ProjectionGridDescriptor._project_to_lat_lon on 2D arrays of one shape:
\* the latitudes and the longitudes, in arrays of that shape
project_to_lat_lon(proj, X, Y) ==
    [Lat |-> [r \in 1..NRows(X) |->
                [c \in 1..NCols(X) |-> transform(proj, X[r][c], Y[r][c]).lat]],
     Lon |-> [r \in 1..NRows(X) |->
                [c \in 1..NCols(X) |-> transform(proj, X[r][c], Y[r][c]).lon]]]

\* The instance after __init__ with the given projection.
PGNew(proj) ==
    [has |-> {}, projection |-> proj, x |-> <<>>, y |-> <<>>,
     xCorner |-> <<>>, yCorner |-> <<>>, history |-> NoHistory,
     coords |-> [x |-> <<>>, y |-> <<>>, lat |-> <<>>, lon |-> <<>>,
                 latLonDims |-> <<>>],
     dims |-> <<>>, scripFileName |-> "", origin |-> "none"]

\* ProjectionGridDescriptor._set_coords: the coords dict with x, y and the
\* lat and lon of every (x, y), declared over (xDimName, yDimName)
PG_set_coords(self, xDimName, yDimName) ==
    LET g == meshgrid(self.x, self.y)
        p == project_to_lat_lon(self.projection, g.X, g.Y)
    IN  [self EXCEPT !.coords = [x |-> self.x, y |-> self.y,
                                 lat |-> p.Lat, lon |-> p.Lon,
                                 latLonDims |-> <<xDimName, yDimName>>],
                     !.dims = <<xDimName, yDimName>>,
                     !.has = @ \cup {"coords", "dims"}]

\* The part read and create share: _set_coords, the corners of x, the
\* corners of y, then the history.
PGDerive(s2, history, origin) ==
    LET s3 == PG_set_coords(s2, "x", "y")
        xC == interp_extrap_corner(s3.x)
        s4 == [s3 EXCEPT !.xCorner = xC.val, !.has = @ \cup {"xCorner"}]
        yC == interp_extrap_corner(s4.y)
        s5 == [s4 EXCEPT !.yCorner = yC.val, !.has = @ \cup {"yCorner"}]
        s6 == [s5 EXCEPT !.history = history, !.has = @ \cup {"history"}]
        Failed(s) == [self |-> [s EXCEPT !.origin = "failed"], ok |-> FALSE]
    IN  IF ~xC.ok THEN Failed(s3)
        ELSE IF ~yC.ok THEN Failed(s4)
        ELSE [self |-> [s6 EXCEPT !.origin = origin], ok |-> TRUE]

\* ProjectionGridDescriptor.read on the dataset ds
PGRead(self, ds, args) ==
    LET s1 == [self EXCEPT !.x = ds.x, !.has = @ \cup {"x"}]
        s2 == [s1 EXCEPT !.y = ds.y, !.has = @ \cup {"y"}]
    IN  IF "x" \notin ds.vars THEN [self |-> self, ok |-> FALSE]
        ELSE IF "y" \notin ds.vars
        THEN [self |-> [s1 EXCEPT !.origin = "failed"], ok |-> FALSE]
        ELSE PGDerive(s2, new_history(ds.history, args), "read")

\* ProjectionGridDescriptor.create on the center arrays x and y
PGCreate(self, x, y, args) ==
    PGDerive([self EXCEPT !.x = x, !.y = y, !.has = @ \cup {"x", "y"}],
             ListValue(args), "create")

\* grid_dims of a projected grid: [nx, ny]
PGDims(nx, ny) == <<nx, ny>>

\* ProjectionGridDescriptor.to_scrip
PGToScrip(self, scripFileName, histAttr) ==
    LET me == set_scrip_file_name(self, scripFileName)
        nx == Len(self.x)
        ny == Len(self.y)
        f0 == NewFile
        f1 == create_scrip(f0, nx * ny, 4, 2, "degrees")
        g == meshgrid(self.x, self.y)
        gC == meshgrid(self.xCorner, self.yCorner)
        centers == project_to_lat_lon(self.projection, g.X, g.Y)
        corners == project_to_lat_lon(self.projection, gC.X, gC.Y)
        f2 == [f1 EXCEPT !.grid_center_lat = Flat(centers.Lat),
                         !.grid_center_lon = Flat(centers.Lon),
                         !.grid_dims = PGDims(nx, ny),
                         !.grid_imask = Ones(f1.grid_size)]
        cornerLat == unwrap_corners(corners.Lat)
        cornerLon == unwrap_corners(corners.Lon)
        f3 == [f2 EXCEPT !.grid_corner_lat = cornerLat]
        f4 == [f3 EXCEPT !.grid_corner_lon = cornerLon]
        f5 == [f4 EXCEPT !.history = histAttr, !.status = "closed"]
        Failed(f) == [self |-> me, file |-> f, ok |-> FALSE]
    IN  IF ~({"x", "y"} \subseteq self.has) THEN Failed(f0)
        ELSE IF ~({"xCorner", "yCorner"} \subseteq self.has) THEN Failed(f1)
        ELSE IF ~FitsCorners(f2, cornerLat) THEN Failed(f2)
        ELSE IF ~FitsCorners(f3, cornerLon) THEN Failed(f3)
        ELSE IF "history" \notin self.has THEN Failed(f4)
        ELSE [self |-> me, file |-> f5, ok |-> TRUE]

\* The grid files read() is given: every pair of center sequences, and the
\* 2 by 3 grid with a coordinate variable or the history attribute missing.
PGDatasets ==
    [vars : {{"x", "y"}}, x : CenterInputs, y : CenterInputs,
     history : {NoHistory}]
    \cup
    [vars : {{"x", "y"}, {"x"}, {"y"}}, x : {AP(0, 10, 2)}, y : {AP(0, 10, 3)},
     history : {NoHistory, StrValue(<<"h">>)}]

\* The arrays create() is given.
PGArrays == [x : CenterInputs, y : CenterInputs]

\* ------------------------------------------------------------ actions: projected grid
ProjRead ==
    /\ kind = "proj"
    /\ calls < MaxCalls
    /\ \E r \in {PGRead(pg, gridFile, argv)} :
           /\ pg' = r.self
           /\ last' = [op |-> "read", ok |-> r.ok, file |-> ""]
           /\ log' = Loaded(log, r.ok)
    \* xarray.open_dataset: read() never closes the dataset
    /\ handles' = Opened(handles, "grid.nc")
    /\ calls' = calls + 1
    /\ UNCHANGED <<kind, inField, outField, lattice, polygons, argv, meshFile,
                   gridFile, arrays, mesh, ll, files>>

ProjCreate ==
    /\ kind = "proj"
    /\ calls < MaxCalls
    /\ \E r \in {PGCreate(pg, arrays.x, arrays.y, argv)} :
           /\ pg' = r.self
           /\ last' = [op |-> "create", ok |-> r.ok, file |-> ""]
           /\ log' = Loaded(log, r.ok)
    /\ calls' = calls + 1
    /\ UNCHANGED <<kind, inField, outField, lattice, polygons, argv, meshFile,
                   gridFile, arrays, mesh, ll, files, handles>>

ProjToScrip ==
    /\ kind = "proj"
    /\ calls < MaxCalls
    /\ \E scripFileName \in FileNames :
       \E histAttr \in netcdf_setattr(pg.history) :
         \E r \in {PGToScrip(pg, scripFileName, histAttr)} :
             /\ pg' = r.self
             /\ files' = [files EXCEPT ![scripFileName] = r.file]
             /\ handles' = IF r.ok THEN handles
                           ELSE Opened(handles, scripFileName)
             /\ last' = [op |-> "to_scrip", ok |-> r.ok, file |-> scripFileName]
             /\ log' = Exported(log, r.ok, scripFileName)
    /\ calls' = calls + 1
    /\ UNCHANGED <<kind, inField, outField, lattice, polygons, argv, meshFile,
                   gridFile, arrays, mesh, ll>>

\* ------------------------------------------------------------ the helpers alone
\* The values of the centers handed to _interp_extrap_corner alone.
PureValues == {0, 10, 20, 40}

\* Every sequence of at most n values of S.
SeqsUpTo(S, n) == UNION {[1..k -> S] : k \in 0..n}

\* Every corner lattice of zeros and ones of at most MaxDim cells per axis.
Lattices ==
    UNION {[1..(ny + 1) -> [1..(nx + 1) -> {0, 1}]] :
             ny \in 0..MaxDim, nx \in 0..MaxDim}

\* The result of a helper: before the call, and once it has returned or
\* raised.
NotCalled == [done |-> FALSE, ok |-> FALSE, val |-> <<>>]
Returned(r) == [done |-> TRUE, ok |-> r.ok, val |-> r.val]

\* The projected-grid instance of a program that has none.
PGIdle == PGNew([a |-> 1, b |-> 0, c |-> 0, d |-> 1, lon0 |-> 100, lat0 |-> -100])

\* What the variables of the other programs hold while one program runs.
Idle(k) ==
    /\ kind = k
    /\ (k # "interp") => (inField = <<>> /\ outField = NotCalled)
    /\ (k # "unwrap") => (lattice = <<>> /\ polygons = NotCalled)
    /\ (k \in {"interp", "unwrap"}) => (argv = << <<"p">> >>)
    /\ files = [f \in FileNames |-> NoFile]
    /\ handles = NoHandles
    /\ calls = 0
    /\ last = NoCall
    /\ log = NoLog

InitPure ==
    /\ \/ /\ Idle("interp")
          /\ inField \in SeqsUpTo(PureValues, MaxLen)
          /\ outField = NotCalled
       \/ /\ Idle("unwrap")
          /\ lattice \in Lattices
          /\ polygons = NotCalled
    /\ meshFile = <<>>
    /\ gridFile = <<>>
    /\ arrays = <<>>
    /\ mesh = MeshNone
    /\ ll = LLNew
    /\ pg = PGIdle

Interp ==
    /\ kind = "interp"
    /\ ~outField.done
    /\ outField' = Returned(interp_extrap_corner(inField))
    /\ UNCHANGED <<kind, inField, lattice, polygons, argv, meshFile, gridFile,
                   arrays, mesh, ll, pg, files, handles, calls, last, log>>

Unwrap ==
    /\ kind = "unwrap"
    /\ ~polygons.done
    /\ polygons' = Returned(Ok(unwrap_corners(lattice)))
    /\ UNCHANGED <<kind, inField, outField, lattice, argv, meshFile, gridFile,
                   arrays, mesh, ll, pg, files, handles, calls, last, log>>

NextPure == Interp \/ Unwrap

SpecPure == InitPure /\ [][NextPure]_vars

\* ------------------------------------------------------------ the lat-lon program
InitLatLon ==
    /\ Idle("latlon")
    /\ \/ /\ gridFile \in LLDatasets
          /\ arrays = LLDefaultArrays
          /\ argv \in Argvs
       \/ /\ gridFile = LLDefaultDataset
          /\ arrays \in LLArrays
          /\ argv = << <<"p">>, <<"a">> >>
    /\ meshFile = <<>>
    /\ mesh = MeshNone
    /\ ll = LLNew
    /\ pg = PGIdle

NextLatLon == LatLonRead \/ LatLonCreate \/ LatLonToScrip

SpecLatLon == InitLatLon /\ [][NextLatLon]_vars

\* ------------------------------------------------------------ properties of the helpers
StrictlyMonotonic(c) ==
    \/ \A i \in 1..(Len(c) - 1) : c[i] < c[i + 1]
    \/ \A i \in 1..(Len(c) - 1) : c[i] > c[i + 1]

\* What the specification says of the corners of the centers c: N+1 corners,
\* the interior ones the midpoints, the two ends extrapolated.
IsCornersOf(corner, c) ==
    LET n == Len(c)
    IN  /\ Len(corner) = n + 1
        /\ \A i \in 2..n : 2 * corner[i] = c[i - 1] + c[i]
        /\ 2 * corner[1] = 3 * c[1] - c[2]
        /\ 2 * corner[n + 1] = 3 * c[n] - c[n - 1]

\* C2 as stated: for every strictly monotonic sequence of N >= 1 centers
\* _interp_extrap_corner returns N+1 corners, the interior ones midpoints and
\* the ends 1.5*c[0] - 0.5*c[1] and 1.5*c[N-1] - 0.5*c[N-2].
C2_AnyLength ==
    (kind = "interp" /\ outField.done /\ Len(inField) >= 1
        /\ StrictlyMonotonic(inField))
    => (outField.ok /\ IsCornersOf(outField.val, inField))

\* C2 as amended: for every strictly monotonic sequence of N >= 2 centers
\* _interp_extrap_corner returns N+1 corners, the interior ones midpoints and
\* the ends 1.5*c[0] - 0.5*c[1] and 1.5*c[N-1] - 0.5*c[N-2]; centers
\* [0, 10, 20] give [-5, 5, 15, 25] and [0, 10] give [-5, 5, 15]; a single
\* center raises IndexError.
C2_InterpExtrap ==
    (kind = "interp" /\ outField.done /\ StrictlyMonotonic(inField))
    => /\ Len(inField) >= 2 =>
            (outField.ok /\ IsCornersOf(outField.val, inField))
       /\ inField = <<0, 10, 20>> => outField.val = <<-5, 5, 15, 25>>
       /\ inField = <<0, 10>> => outField.val = <<-5, 5, 15>>
       /\ Len(inField) = 1 => ~outField.ok

C2_Witness ==
    /\ kind = "interp" /\ outField.done /\ outField.ok
    /\ inField = <<0, 10, 40>>
    /\ outField.val = <<-5, 5, 25, 55>>

\* C3: _unwrap_corners on a lattice of shape (ny+1, nx+1) returns ny*nx rows
\* of 4 entries, and row r*nx + c is lattice[r,c], lattice[r,c+1],
\* lattice[r+1,c+1], lattice[r+1,c].
C3_Unwrap ==
    (kind = "unwrap" /\ polygons.done)
    => LET ny == NRows(lattice) - 1
           nx == NCols(lattice) - 1
       IN  /\ polygons.ok
           /\ Len(polygons.val) = ny * nx
           /\ \A r \in 0..(ny - 1), c \in 0..(nx - 1) :
                polygons.val[r * nx + c + 1] =
                    <<lattice[r + 1][c + 1], lattice[r + 1][c + 2],
                      lattice[r + 2][c + 2], lattice[r + 2][c + 1]>>

C3_Witness ==
    /\ kind = "unwrap" /\ polygons.done
    /\ lattice = << <<0, 0, 0>>, <<0, 0, 1>>, <<0, 1, 0>> >>
    /\ polygons.val = << <<0, 0, 0, 0>>, <<0, 0, 1, 0>>,
                         <<0, 0, 1, 0>>, <<0, 1, 0, 1>> >>

\* ------------------------------------------------------------ properties of the lat-lon grid
\* to_scrip has just returned on the lat-lon instance.
LLExported == kind = "latlon" /\ last.op = "to_scrip" /\ last.ok

\* C4: after a read that returned, to_scrip writes grid_size = nLat*nLon,
\* grid_corners = 4, grid_dims = [nLon, nLat]; the cell of flat index
\* r*nLon + c has the center (lat[r], lon[c]), the corner latitudes
\* (latCorner[r], latCorner[r], latCorner[r+1], latCorner[r+1]) and the
\* corner longitudes (lonCorner[c], lonCorner[c+1], lonCorner[c+1],
\* lonCorner[c]), latCorner and lonCorner being the corners of the centers
\* of the file; lat = [0,10,20], lon = [0,10] give grid_size 6 and grid_dims
\* [2,3].
C4_LatLonRecord ==
    (LLExported /\ ll.origin = "read")
    => LET f == files[last.file]
           lat == gridFile.lat
           lon == gridFile.lon
           nLat == Len(lat)
           nLon == Len(lon)
           latC == ll.latCorner
           lonC == ll.lonCorner
       IN  /\ f.status = "closed"
           /\ IsCornersOf(latC, lat) /\ IsCornersOf(lonC, lon)
           /\ f.grid_size = nLat * nLon
           /\ f.grid_corners = 4
           /\ f.grid_dims = <<nLon, nLat>>
           /\ Len(f.grid_center_lat) = f.grid_size
           /\ Len(f.grid_center_lon) = f.grid_size
           /\ Len(f.grid_corner_lat) = f.grid_size
           /\ Len(f.grid_corner_lon) = f.grid_size
           /\ \A r \in 0..(nLat - 1), c \in 0..(nLon - 1) :
                LET k == r * nLon + c + 1
                IN  /\ f.grid_center_lat[k] = lat[r + 1]
                    /\ f.grid_center_lon[k] = lon[c + 1]
                    /\ f.grid_corner_lat[k] =
                         <<latC[r + 1], latC[r + 1], latC[r + 2], latC[r + 2]>>
                    /\ f.grid_corner_lon[k] =
                         <<lonC[c + 1], lonC[c + 2], lonC[c + 2], lonC[c + 1]>>
           /\ (lat = <<0, 10, 20>> /\ lon = <<0, 10>>) =>
                /\ f.grid_size = 6
                /\ f.grid_dims = <<2, 3>>
                /\ latC = <<-5, 5, 15, 25>> /\ lonC = <<-5, 5, 15>>

C4_Witness ==
    /\ LLExported /\ ll.origin = "read"
    /\ gridFile.lat = <<0, 10, 20>> /\ gridFile.lon = <<0, 10>>
    /\ files[last.file].grid_size = 6
    /\ files[last.file].grid_corner_lat[6] = <<15, 15, 25, 25>>
    /\ files[last.file].grid_corner_lon[6] = <<5, 15, 15, 5>>

\* ------------------------------------------------------------ the mesh program
InitMesh ==
    /\ Idle("mesh")
    /\ argv \in Argvs
    /\ meshFile \in MeshFiles
    /\ (meshFile.verticesOnCell # WholeCells(meshFile.nCells, MaxEdges))
         => argv = << <<"p">>, <<"a">> >>
    /\ gridFile = <<>>
    /\ arrays = <<>>
    /\ mesh = MeshNone
    /\ ll = LLNew
    /\ pg = PGIdle

NextMesh == MeshConstruct \/ MeshExport

SpecMesh == InitMesh /\ [][NextMesh]_vars

\* ------------------------------------------------------------ properties of the mesh
\* to_scrip has just returned on the mesh instance.
MeshExported == kind = "mesh" /\ last.op = "to_scrip" /\ last.ok

\* The 1-based ids of the vertices of the mesh file.
VertexIds == 1..Len(meshFile.latVertex)

\* C1: the corner exported at [c, p] is the (lat, lon) of the vertex whose
\* 1-based id is verticesOnCell[c, min(nEdgesOnCell[c]-1, p)]; the positions
\* from nEdgesOnCell[c] on repeat position nEdgesOnCell[c]-1; a cell of
\* maxVerticesPerCell vertices has its p-th vertex at every position p (the
\* corners of different vertices differ).
C1_MeshCorners ==
    MeshExported
    => LET f == files[last.file]
           mf == meshFile
       IN  /\ Len(f.grid_corner_lat) = mf.nCells
           /\ Len(f.grid_corner_lon) = mf.nCells
           /\ \A c \in 1..mf.nCells :
                LET k == mf.nEdgesOnCell[c]
                IN  /\ Len(f.grid_corner_lat[c]) = mf.maxEdges
                    /\ Len(f.grid_corner_lon[c]) = mf.maxEdges
                    /\ \A p \in 0..(mf.maxEdges - 1) :
                         LET id == mf.verticesOnCell[c][Min(k - 1, p) + 1]
                         IN  /\ id \in VertexIds =>
                                  /\ f.grid_corner_lat[c][p + 1] = mf.latVertex[id]
                                  /\ f.grid_corner_lon[c][p + 1] = mf.lonVertex[id]
                             /\ p >= k =>
                                  /\ f.grid_corner_lat[c][p + 1] = f.grid_corner_lat[c][k]
                                  /\ f.grid_corner_lon[c][p + 1] = f.grid_corner_lon[c][k]
                    /\ (k = mf.maxEdges
                          /\ \A i \in 1..k : mf.verticesOnCell[c][i] \in VertexIds)
                       => \A p, q \in 1..mf.maxEdges :
                            p # q => f.grid_corner_lat[c][p] # f.grid_corner_lat[c][q]

C1_Witness ==
    /\ MeshExported
    /\ meshFile.nCells = 2 /\ meshFile.maxEdges = 3
    /\ meshFile.nEdgesOnCell = <<1, 3>>
    /\ meshFile.verticesOnCell = << <<2, 0, 0>>, <<1, 2, 3>> >>
    /\ files[last.file].grid_corner_lat = << <<20, 20, 20>>, <<10, 20, 30>> >>
    /\ files[last.file].grid_corner_lon = << <<21, 21, 21>>, <<11, 21, 31>> >>

\* C7: a vertex id among a cell's first nEdgesOnCell entries that is 0 or
\* otherwise outside 1..nVertices makes the export fail: no export returns
\* on a mesh that holds one.
C7_BadIdFails ==
    MeshExported
    => \A c \in 1..meshFile.nCells :
         \A i \in 1..meshFile.nEdgesOnCell[c] :
            meshFile.verticesOnCell[c][i] \in VertexIds

\* C9: the exported grid_area of every cell is areaCell / sphereRadius^2; a
\* cell of area 100 on a sphere of radius 10 is exported with the area 1.
C9_MeshArea ==
    MeshExported
    => LET f == files[last.file]
           mf == meshFile
       IN  /\ Len(f.grid_area) = mf.nCells
           /\ \A c \in 1..mf.nCells :
                /\ f.grid_area[c].den > 0
                /\ f.grid_area[c].num * mf.sphere_radius * mf.sphere_radius
                     = mf.areaCell[c] * f.grid_area[c].den
                /\ (mf.areaCell[c] = 100 /\ mf.sphere_radius = 10)
                     => f.grid_area[c] = [num |-> 1, den |-> 1]

C9_Witness ==
    /\ MeshExported
    /\ meshFile.nCells = 2
    /\ meshFile.areaCell[1] = 100 /\ meshFile.sphere_radius = 10
    /\ files[last.file].grid_area[1] = [num |-> 1, den |-> 1]
    /\ files[last.file].grid_area[2] = [num |-> 2, den |-> 1]

\* ------------------------------------------------------------ the projected-grid program
InitProj ==
    /\ Idle("proj")
    /\ \/ /\ gridFile \in PGDatasets
          /\ arrays = [x |-> AP(0, 10, 3), y |-> AP(0, 10, 2)]
          /\ argv \in Argvs
       \/ /\ gridFile = [vars |-> {"x", "y"}, x |-> AP(0, 10, 2),
                         y |-> AP(0, 10, 3), history |-> NoHistory]
          /\ arrays \in PGArrays
          /\ argv = << <<"p">>, <<"a">> >>
    /\ meshFile = <<>>
    /\ mesh = MeshNone
    /\ ll = LLNew
    /\ pg \in {PGNew(proj) : proj \in Projections}

NextProj == ProjRead \/ ProjCreate \/ ProjToScrip

SpecProj == InitProj /\ [][NextProj]_vars

\* ------------------------------------------------------------ the three programs
Init == InitMesh \/ InitLatLon \/ InitProj

Next == NextMesh \/ NextLatLon \/ NextProj

Spec == Init /\ [][Next]_vars

\* ------------------------------------------------------------ properties of every export
\* to_scrip has just returned, on whichever instance the program has.
JustExported == last.op = "to_scrip" /\ last.ok

\* The command line as one string.
CommandLine == Join(<<" ">>, argv)

\* The history attribute of the source the exported data came from: the mesh
\* file, the grid file after read, none after create.
SourceHistory ==
    IF kind = "mesh" THEN meshFile.history
    ELSE IF kind = "latlon" /\ ll.origin = "read" THEN gridFile.history
    ELSE IF kind = "proj" /\ pg.origin = "read" THEN gridFile.history
    ELSE NoHistory

\* The instance was set by a read or a create that returned.
WhollyLoaded ==
    \/ kind = "mesh"
    \/ kind = "latlon" /\ ll.origin \in {"read", "create"}
    \/ kind = "proj" /\ pg.origin \in {"read", "create"}

\* C5: the history attribute to_scrip writes is the provenance text of the
\* source, a newline and the command line when the source has provenance
\* text, and otherwise the command line as one string, its arguments joined
\* by spaces.
C5_HistoryText ==
    (JustExported /\ WhollyLoaded)
    => files[last.file].history =
         IF SourceHistory.kind = "str"
         THEN StrValue(SourceHistory.val[1] \o <<"\n">> \o CommandLine)
         ELSE StrValue(CommandLine)

RECURSIVE Product(_)
Product(d) == IF Len(d) = 0 THEN 1 ELSE Head(d) * Product(Tail(d))

\* C6: in every exported record grid_imask has grid_size entries, all 1;
\* grid_rank is 1 and grid_corners maxVerticesPerCell for a mesh, 2 and 4
\* for a lat-lon or projected grid; grid_dims has grid_rank entries, [nCells]
\* for a mesh and [nX, nY] for a rectangular grid, of product grid_size; and
\* every cell has grid_corners corner latitudes and longitudes.
C6_RecordShape ==
    \A name \in FileNames :
       LET f == files[name]
       IN  f.status = "closed" =>
           /\ Len(f.grid_imask) = f.grid_size
           /\ \A i \in 1..Len(f.grid_imask) : f.grid_imask[i] = 1
           /\ kind = "mesh" =>
                /\ f.grid_rank = 1
                /\ f.grid_corners = meshFile.maxEdges
                /\ f.grid_dims = <<meshFile.nCells>>
           /\ kind \in {"latlon", "proj"} =>
                /\ f.grid_rank = 2
                /\ f.grid_corners = 4
           /\ (JustExported /\ name = last.file /\ kind = "latlon") =>
                f.grid_dims = <<Len(ll.lon), Len(ll.lat)>>
           /\ (JustExported /\ name = last.file /\ kind = "proj") =>
                f.grid_dims = <<Len(pg.x), Len(pg.y)>>
           /\ Len(f.grid_dims) = f.grid_rank
           /\ Product(f.grid_dims) = f.grid_size
           /\ Len(f.grid_center_lat) = f.grid_size
           /\ Len(f.grid_center_lon) = f.grid_size
           /\ Len(f.grid_corner_lat) = f.grid_size
           /\ Len(f.grid_corner_lon) = f.grid_size
           /\ \A k \in 1..f.grid_size :
                /\ Len(f.grid_corner_lat[k]) = f.grid_corners
                /\ Len(f.grid_corner_lon[k]) = f.grid_corners

C6_Witness ==
    /\ kind = "proj" /\ JustExported /\ last.file = "b.nc"
    /\ files["b.nc"].grid_dims = <<2, 3>>
    /\ files["b.nc"].grid_size = 6
    /\ files["b.nc"].grid_rank = 2
    /\ files["b.nc"].grid_imask = <<1, 1, 1, 1, 1, 1>>
    /\ Len(files["b.nc"].grid_corner_lat[6]) = 4

\* Twice the signed area of the polygon of the points (x[i], y[i]):
\* positive when the points are listed counterclockwise.
SignedArea2(x, y) ==
    LET n == Len(x)
        nxt(i) == IF i = n THEN 1 ELSE i + 1
        RECURSIVE Sum(_)
        Sum(i) == IF i = 0 THEN 0
                  ELSE x[i] * y[nxt(i)] - x[nxt(i)] * y[i] + Sum(i - 1)
    IN  Sum(n)

\* The k-th cell (row-major, 1-based) of the grid of the corner sequences
\* xC (along a row) and yC (along a column), as the 4 points the
\* specification lists: lower-left, lower-right, upper-right, upper-left.
CellX(xC, k) ==
    LET c == (k - 1) % (Len(xC) - 1)
    IN  <<xC[c + 1], xC[c + 2], xC[c + 2], xC[c + 1]>>
CellY(xC, yC, k) ==
    LET r == (k - 1) \div (Len(xC) - 1)
    IN  <<yC[r + 1], yC[r + 1], yC[r + 2], yC[r + 2]>>

\* C8: the 4 corners of every cell a lat-lon grid exports are counterclockwise
\* in the lon-lat plane, and those of a projected grid are the projections
\* of 4 points counterclockwise in the x-y plane, for strictly monotonic
\* centers on each axis, increasing or decreasing.
C8_CounterClockwise ==
    /\ (JustExported /\ kind = "latlon" /\ ll.origin \in {"read", "create"}
          /\ StrictlyMonotonic(ll.lat) /\ StrictlyMonotonic(ll.lon))
       => \A k \in 1..files[last.file].grid_size :
            SignedArea2(files[last.file].grid_corner_lon[k],
                        files[last.file].grid_corner_lat[k]) > 0
    /\ (JustExported /\ kind = "proj" /\ pg.origin \in {"read", "create"}
          /\ StrictlyMonotonic(pg.x) /\ StrictlyMonotonic(pg.y))
       => \A k \in 1..files[last.file].grid_size :
            LET px == CellX(pg.xCorner, k)
                py == CellY(pg.xCorner, pg.yCorner, k)
            IN  /\ \A i \in 1..4 :
                     /\ files[last.file].grid_corner_lon[k][i] =
                          transform(pg.projection, px[i], py[i]).lon
                     /\ files[last.file].grid_corner_lat[k][i] =
                          transform(pg.projection, px[i], py[i]).lat
                /\ SignedArea2(px, py) > 0

LLData(self) == [self EXCEPT !.scripFileName = "", !.has = @ \ {"scripFileName"}]

Raised(op) == calls' = calls + 1 /\ last'.op = op /\ ~last'.ok

\* to_scrip is called on a mesh, or on a grid no read or create was ever
\* called on.
BeforeLoad ==
    \/ kind = "mesh"
    \/ kind = "latlon" /\ ll.origin = "none"
    \/ kind = "proj" /\ pg.origin = "none"

\* C11: a to_scrip that fails while it reads its inputs or derives the
\* corners, or that is called before any read or create, has neither created
\* nor written the destination file: every file is as it was before the call.
C11_NothingWrittenOnFailure ==
    [][(Raised("to_scrip") /\ BeforeLoad) => files' = files]_vars

\* C12: in every state between two calls no file handle is open, whether the
\* calls made so far returned or raised.
C12_NoOpenHandle == \A h \in HandleNames : handles[h] = 0

\* C13: a read or create that fails leaves the instance as it was, so that
\* every to_scrip that returns exports an instance that one read or create
\* that returned has set whole.
C13_FailedLoadNoChange ==
    [][/\ (Raised("read") \/ Raised("create")) => (ll' = ll /\ pg' = pg)
       /\ (calls' = calls + 1 /\ last'.op = "to_scrip" /\ last'.ok)
            => WhollyLoaded
      ]_vars

\* C14: after a read or create of nx x-centers and ny y-centers the lat and
\* lon fields of coords are declared over (xDimName, yDimName), are nx by
\* ny, and hold at (i, j) the projection of (x[i], y[j]).
C14_LatLonFieldShape ==
    (kind = "proj" /\ pg.origin \in {"read", "create"})
    => LET nx == Len(pg.x)
           ny == Len(pg.y)
           Shaped(a) == Len(a) = nx /\ \A i \in 1..nx : Len(a[i]) = ny
       IN  /\ pg.coords.latLonDims = <<pg.dims[1], pg.dims[2]>>
           /\ Shaped(pg.coords.lat) /\ Shaped(pg.coords.lon)
           /\ \A i \in 1..nx, j \in 1..ny :
                /\ pg.coords.lat[i][j] =
                     transform(pg.projection, pg.x[i], pg.y[j]).lat
                /\ pg.coords.lon[i][j] =
                     transform(pg.projection, pg.x[i], pg.y[j]).lon

=============================================================================
